---- MODULE Spec2Model ----
(***************************************************************************)
(* hummingbird/convert.py: the three conversion entry points               *)
(* convert_sklearn, convert_lightgbm and convert_xgboost, as a state       *)
(* machine.  Every caller thread runs one call at a time; a call walks     *)
(* through the statements of the entry point it invoked.  Python objects   *)
(* that outlive a statement (the models, the extra_config dictionaries,    *)
(* among them the one default dictionary each `def` creates) live in two   *)
(* heaps, and the locals of a call hold references into them.              *)
(***************************************************************************)
EXTENDS Integers, Sequences, FiniteSets, TLC

\* ------------------------------------------------------------------ bounds
MaxFeatures == 2        \* widths / dimension sizes range over 1..MaxFeatures

Threads == {"t1", "t2"}

\* ------------------------------------------------------------ Python values
EntryPoints == {"convert_sklearn", "convert_lightgbm", "convert_xgboost"}
Devices == {"None", "cuda"}
Keys == {"n_features", "tree_implementation"}

\* A dict is a function whose domain is its set of keys.  The values of
\* n_features are widths; another option has one value here.
EmptyDict == [k \in {} |-> 0]
ValuesOf(k) == IF k = "n_features" THEN 1..MaxFeatures ELSE {1}
Dicts == UNION {{d \in [S -> 1..MaxFeatures] : \A k \in S : d[k] \in ValuesOf(k)} : S \in SUBSET Keys}

\* d[key] = value
SetItemOverwrite(d, key, value) ==
    [k \in (DOMAIN d) \cup {key} |-> IF k = key THEN value ELSE d[k]]

\* test_input values: None, a numpy ndarray of any rank, or an object of
\* another type that also has a two-dimensional shape (a DataFrame).
Ranks == 1..3
Shapes == UNION {[1..r -> 1..MaxFeatures] : r \in Ranks}
NoneInput == [type |-> "NoneType", shape |-> << >>]
TestInputs ==
    {NoneInput}
      \cup {[type |-> "ndarray", shape |-> s] : s \in Shapes}
      \cup {[type |-> "DataFrame", shape |-> s] : s \in {x \in Shapes : Len(x) = 2}}

\* ------------------------------------------------------------------- heaps
NoObj == <<"none", "none">>
ObjIds == {"orig", "orig_est", "copy", "copy_est"} \X Threads
Unallocated == [attrs |-> {}, features_count |-> 0, rewritten |-> FALSE, estimator |-> NoObj]

DefaultOf(entry) == <<"default", entry>>
CallerDict(t) == <<"caller", t>>
CfgIds == {DefaultOf(e) : e \in EntryPoints} \cup {CallerDict(t) : t \in Threads}

VARIABLES
    installed,      \* what torch_installed(), lightgbm_installed(), xgboost_installed() answer
    objects,        \* heap of model objects
    configs,        \* heap of extra_config dictionaries
    pc,             \* per thread: the statement the call is at
    entry,          \* per thread: the entry point the caller invoked
    model,          \* local `model`: a reference into objects
    test_input,     \* local `test_input`
    device,         \* local `device`
    extra_config,   \* local `extra_config`: a reference into configs
    topology,       \* local `topology`
    hb_model,       \* local `hb_model`
    outcome,        \* what the call gave its caller: a program or an exception
    parse_args,     \* the arguments of the calls made to parse_sklearn_api_model
    lower_args,     \* the arguments of the calls made to convert_topology
    lower_config,   \* the contents of extra_config as convert_topology read them
    given_config    \* the contents of extra_config when the caller made the call

vars == <<installed, objects, configs, pc, entry, model, test_input, device,
          extra_config, topology, hb_model, outcome, parse_args, lower_args, lower_config,
          given_config>>

NoTopology == [model |-> NoObj]

Init ==
    /\ installed \in [{"torch", "lightgbm", "xgboost"} -> BOOLEAN]
    /\ objects = [o \in ObjIds |-> Unallocated]
    /\ configs = [c \in CfgIds |-> EmptyDict]
    /\ pc = [t \in Threads |-> "idle"]
    /\ entry = [t \in Threads |-> "convert_sklearn"]
    /\ model = [t \in Threads |-> NoObj]
    /\ test_input = [t \in Threads |-> NoneInput]
    /\ device = [t \in Threads |-> "None"]
    /\ extra_config = [t \in Threads |-> CallerDict(t)]
    /\ topology = [t \in Threads |-> NoTopology]
    /\ hb_model = [t \in Threads |-> "unset"]
    /\ outcome = [t \in Threads |-> "none"]
    /\ parse_args = [t \in Threads |-> << >>]
    /\ lower_args = [t \in Threads |-> << >>]
    /\ lower_config = [t \in Threads |-> EmptyDict]
    /\ given_config = [t \in Threads |-> EmptyDict]

\* ---------------------------------------------------------- collaborators
\* parse_sklearn_api_model(model): a Topology, or UnsupportedModelError.  The
\* optimizations it runs may rewrite the model it was given and that model's
\* sub-estimators.
ParseResults == {"topology", "UnsupportedModelError"}
\* convert_topology(topology, device, extra_config): a program, or LoweringError.
LowerResults == {"program", "LoweringError"}

Reach(objs, ref) == {ref, objs[ref].estimator} \ {NoObj}
Rewrite(objs, ids) ==
    [o \in ObjIds |-> IF o \in ids THEN [objs[o] EXCEPT !.rewritten = TRUE] ELSE objs[o]]

\* dir(model)
dir(obj) == obj.attrs

\* ------------------------------------------------------------ the callers
FirstStatement(e) ==
    CASE e = "convert_sklearn" -> "convert_sklearn:34"
      [] e = "convert_lightgbm" -> "convert_lightgbm:56"
      [] e = "convert_xgboost" -> "convert_xgboost:70"

\* A caller invokes entry point e on its own model, with extra_config either
\* left out (the parameter is bound to the default object of that def) or a
\* dictionary d of its own.
Invoke(t, e, fc, ti, dev, useDefault, d) ==
    /\ pc[t] = "idle"
    /\ objects' = [objects EXCEPT
          ![<<"orig", t>>] = [attrs |-> IF fc > 0 THEN {"_features_count"} ELSE {},
                              features_count |-> fc,
                              rewritten |-> FALSE,
                              estimator |-> <<"orig_est", t>>],
          ![<<"orig_est", t>>] = Unallocated]
    /\ configs' = IF useDefault THEN configs ELSE [configs EXCEPT ![CallerDict(t)] = d]
    /\ extra_config' = [extra_config EXCEPT ![t] = IF useDefault THEN DefaultOf(e) ELSE CallerDict(t)]
    /\ given_config' = [given_config EXCEPT ![t] = IF useDefault THEN configs[DefaultOf(e)] ELSE d]
    /\ entry' = [entry EXCEPT ![t] = e]
    /\ model' = [model EXCEPT ![t] = <<"orig", t>>]
    /\ test_input' = [test_input EXCEPT ![t] = ti]
    /\ device' = [device EXCEPT ![t] = dev]
    /\ pc' = [pc EXCEPT ![t] = FirstStatement(e)]
    /\ UNCHANGED <<installed, topology, hb_model, outcome, parse_args, lower_args, lower_config>>

\* A call with any arguments.
Call(t) ==
    /\ pc[t] = "idle"
    /\ \E e \in EntryPoints, fc \in 0..MaxFeatures, ti \in TestInputs, dev \in Devices,
          useDefault \in BOOLEAN, d \in Dicts :
          /\ useDefault => d = EmptyDict
          /\ Invoke(t, e, fc, ti, dev, useDefault, d)

\* Calls from several threads at once.  The inputs are the ones that decide
\* n_features: the entry point, whether the model has a count of its own
\* (ThreadCounts: none, or 1), the width of a 2-D ndarray, and whether
\* extra_config is left at its default.
ThreadCounts == {0, 1}
ThreadInputs == {[type |-> "ndarray", shape |-> <<1, n>>] : n \in 1..MaxFeatures}
ThreadCall(t) ==
    /\ pc[t] = "idle"
    /\ \E e \in EntryPoints, fc \in ThreadCounts, ti \in ThreadInputs, useDefault \in BOOLEAN :
        Invoke(t, e, fc, ti, "None", useDefault, EmptyDict)

\* The caller has its result (a program or an exception) and drops the call.
Finish(t) ==
    /\ pc[t] \in {"returned", "raised"}
    /\ pc' = [pc EXCEPT ![t] = "idle"]
    /\ objects' = [o \in ObjIds |-> IF o[2] = t THEN Unallocated ELSE objects[o]]
    /\ configs' = [configs EXCEPT ![CallerDict(t)] = EmptyDict]
    /\ entry' = [entry EXCEPT ![t] = "convert_sklearn"]
    /\ model' = [model EXCEPT ![t] = NoObj]
    /\ test_input' = [test_input EXCEPT ![t] = NoneInput]
    /\ device' = [device EXCEPT ![t] = "None"]
    /\ extra_config' = [extra_config EXCEPT ![t] = CallerDict(t)]
    /\ topology' = [topology EXCEPT ![t] = NoTopology]
    /\ hb_model' = [hb_model EXCEPT ![t] = "unset"]
    /\ outcome' = [outcome EXCEPT ![t] = "none"]
    /\ parse_args' = [parse_args EXCEPT ![t] = << >>]
    /\ lower_args' = [lower_args EXCEPT ![t] = << >>]
    /\ lower_config' = [lower_config EXCEPT ![t] = EmptyDict]
    /\ given_config' = [given_config EXCEPT ![t] = EmptyDict]
    /\ UNCHANGED installed

\* ------------------------------------------------------------- statements
\* An exception leaves the call: nothing in this file catches one.
Raise(t, exc) ==
    /\ pc' = [pc EXCEPT ![t] = "raised"]
    /\ outcome' = [outcome EXCEPT ![t] = exc]

Goto(t, label) ==
    /\ pc' = [pc EXCEPT ![t] = label]
    /\ UNCHANGED outcome

\* convert_xgboost, line 70
XGBoostAssert(t) ==
    /\ pc[t] = "convert_xgboost:70"
    /\ IF installed["xgboost"] THEN Goto(t, "convert_xgboost:74") ELSE Raise(t, "AssertionError")
    /\ UNCHANGED <<installed, objects, configs, entry, model, test_input, device,
                   extra_config, topology, hb_model, parse_args, lower_args, lower_config, given_config>>

\* Mutant of InferFeatures: shape[0] read where shape[1] is meant.
InferFeaturesRows(m, ti) ==
    IF "_features_count" \in dir(m)
    THEN [ok |-> TRUE, n |-> m.features_count]
    ELSE IF ti.type # "NoneType"
         THEN IF ti.type = "ndarray" /\ Len(ti.shape) = 2
              THEN [ok |-> TRUE, n |-> ti.shape[1]]
              ELSE [ok |-> FALSE, n |-> 0]
         ELSE [ok |-> FALSE, n |-> 0]

\* Mutant of InferFeatures: the rank of the ndarray is not checked and the
\* last dimension is taken.
InferFeaturesAnyRank(m, ti) ==
    IF "_features_count" \in dir(m)
    THEN [ok |-> TRUE, n |-> m.features_count]
    ELSE IF ti.type # "NoneType"
         THEN IF ti.type = "ndarray"
              THEN [ok |-> TRUE, n |-> ti.shape[Len(ti.shape)]]
              ELSE [ok |-> FALSE, n |-> 0]
         ELSE [ok |-> FALSE, n |-> 0]

\* Mutant of InferFeatures: test_input is looked at first, the model's own
\* count only when there is no test_input.
InferFeaturesInputFirst(m, ti) ==
    IF ti.type # "NoneType"
    THEN IF ti.type = "ndarray" /\ Len(ti.shape) = 2
         THEN [ok |-> TRUE, n |-> ti.shape[2]]
         ELSE [ok |-> FALSE, n |-> 0]
    ELSE IF "_features_count" \in dir(m)
         THEN [ok |-> TRUE, n |-> m.features_count]
         ELSE [ok |-> FALSE, n |-> 0]

\* convert_xgboost, lines 74-89: the feature count, or no count (RuntimeError).
InferFeatures(m, ti) ==
    IF "_features_count" \in dir(m)
    THEN [ok |-> TRUE, n |-> m.features_count]
    ELSE IF ti.type # "NoneType"
         THEN IF ti.type = "ndarray" /\ Len(ti.shape) = 2
              THEN [ok |-> TRUE, n |-> ti.shape[2]]
              ELSE [ok |-> FALSE, n |-> 0]
         ELSE [ok |-> FALSE, n |-> 0]

\* Mutant of StoreFeatures: extra_config.setdefault("n_features", n).
StoreFeaturesIfMissing(d, n) ==
    IF "n_features" \in DOMAIN d THEN d ELSE SetItemOverwrite(d, "n_features", n)

\* extra_config["n_features"] = n
StoreFeatures(d, n) == SetItemOverwrite(d, "n_features", n)

\* convert_xgboost, lines 74-90: infer, store, and call convert_sklearn.
XGBoostInfer(t) ==
    /\ pc[t] = "convert_xgboost:74"
    /\ LET r == InferFeatures(objects[model[t]], test_input[t])
       IN IF r.ok
          THEN /\ configs' = [configs EXCEPT ![extra_config[t]] = StoreFeatures(@, r.n)]
               /\ Goto(t, "convert_sklearn:34")
          ELSE /\ UNCHANGED configs
               /\ Raise(t, "RuntimeError")
    /\ UNCHANGED <<installed, objects, entry, model, test_input, device,
                   extra_config, topology, hb_model, parse_args, lower_args, lower_config, given_config>>

\* convert_lightgbm, lines 56-58
LightGBMAssert(t) ==
    /\ pc[t] = "convert_lightgbm:56"
    /\ IF installed["lightgbm"] THEN Goto(t, "convert_sklearn:34") ELSE Raise(t, "AssertionError")
    /\ UNCHANGED <<installed, objects, configs, entry, model, test_input, device,
                   extra_config, topology, hb_model, parse_args, lower_args, lower_config, given_config>>

\* Mutant of TorchAvailable: the check is gone.
TorchUnchecked == TRUE

\* convert_sklearn, line 34
TorchAvailable == installed["torch"]

SklearnAssert(t) ==
    /\ pc[t] = "convert_sklearn:34"
    /\ IF TorchAvailable THEN Goto(t, "convert_sklearn:38") ELSE Raise(t, "AssertionError")
    /\ UNCHANGED <<installed, objects, configs, entry, model, test_input, device,
                   extra_config, topology, hb_model, parse_args, lower_args, lower_config, given_config>>

\* Mutant of DeepCopy: copy.copy(model), the sub-estimator is shared.
ShallowCopy(objs, t, ref) ==
    [heap |-> [objs EXCEPT ![<<"copy", t>>] = objs[ref]],
     ref |-> <<"copy", t>>]

\* deepcopy(model): a new object for the model and for everything it refers to.
DeepCopy(objs, t, ref) ==
    [heap |-> [objs EXCEPT
                  ![<<"copy", t>>] = [objs[ref] EXCEPT !.estimator = <<"copy_est", t>>],
                  ![<<"copy_est", t>>] = objs[objs[ref].estimator]],
     ref |-> <<"copy", t>>]

\* convert_sklearn, line 38
SklearnDeepCopy(t) ==
    /\ pc[t] = "convert_sklearn:38"
    /\ LET c == DeepCopy(objects, t, model[t])
       IN /\ objects' = c.heap
          /\ model' = [model EXCEPT ![t] = c.ref]
    /\ Goto(t, "convert_sklearn:39")
    /\ UNCHANGED <<installed, configs, entry, test_input, device,
                   extra_config, topology, hb_model, parse_args, lower_args, lower_config, given_config>>

\* Mutant of AfterParse: the parser's exception is swallowed.
AfterParseSwallowed(t, result) == Goto(t, "convert_sklearn:42")

\* Where convert_sklearn goes once parse_sklearn_api_model has answered.
AfterParse(t, result) ==
    IF result = "topology" THEN Goto(t, "convert_sklearn:42") ELSE Raise(t, result)

\* convert_sklearn, line 39
SklearnParse(t) ==
    /\ pc[t] = "convert_sklearn:39"
    /\ parse_args' = [parse_args EXCEPT ![t] = Append(@, [model |-> model[t]])]
    /\ \E result \in ParseResults, touched \in SUBSET Reach(objects, model[t]) :
          /\ objects' = Rewrite(objects, touched)
          /\ topology' = [topology EXCEPT ![t] =
                            IF result = "topology" THEN [model |-> model[t]] ELSE @]
          /\ AfterParse(t, result)
    /\ UNCHANGED <<installed, configs, entry, model, test_input, device,
                   extra_config, hb_model, lower_args, lower_config, given_config>>

\* Mutant of AfterLower: a failed lowering is tried once more.
AfterLowerRetried(t, result) ==
    IF result = "program"
    THEN /\ pc' = [pc EXCEPT ![t] = "returned"]
         /\ outcome' = [outcome EXCEPT ![t] = "program"]
    ELSE IF lower_args[t] = << >>
         THEN Goto(t, "convert_sklearn:42")
         ELSE Raise(t, result)

\* Where convert_sklearn goes once convert_topology has answered (line 43).
AfterLower(t, result) ==
    IF result = "program"
    THEN /\ pc' = [pc EXCEPT ![t] = "returned"]
         /\ outcome' = [outcome EXCEPT ![t] = "program"]
    ELSE Raise(t, result)

\* Mutant of LowerArguments: extra_config is not forwarded, convert_topology
\* gets convert_sklearn's default.
LowerArgumentsDefault(t) ==
    [topology |-> topology[t], device |-> device[t],
     extra_config |-> DefaultOf("convert_sklearn")]

\* The arguments of line 42's call.
LowerArguments(t) ==
    [topology |-> topology[t], device |-> device[t], extra_config |-> extra_config[t]]

\* convert_sklearn, lines 42-43
SklearnLower(t) ==
    /\ pc[t] = "convert_sklearn:42"
    /\ lower_args' = [lower_args EXCEPT ![t] = Append(@, LowerArguments(t))]
    /\ lower_config' = [lower_config EXCEPT ![t] = configs[LowerArguments(t).extra_config]]
    /\ \E result \in LowerResults :
          /\ hb_model' = [hb_model EXCEPT ![t] = IF result = "program" THEN result ELSE @]
          /\ AfterLower(t, result)
    /\ UNCHANGED <<installed, objects, configs, entry, model, test_input, device,
                   extra_config, topology, parse_args, given_config>>

Step(t) ==
    \/ XGBoostAssert(t)
    \/ XGBoostInfer(t)
    \/ LightGBMAssert(t)
    \/ SklearnAssert(t)
    \/ SklearnDeepCopy(t)
    \/ SklearnParse(t)
    \/ SklearnLower(t)
    \/ Finish(t)

\* Calls one after another: one caller, whose next call starts when the last
\* has ended.
MainThread == "t1"
Next == Call(MainThread) \/ Step(MainThread)
Spec == Init /\ [][Next]_vars

\* Calls from several threads, every library installed.
ConcurrentInit == Init /\ \A lib \in DOMAIN installed : installed[lib]
ConcurrentNext == \E t \in Threads : ThreadCall(t) \/ Step(t)
ConcurrentSpec == ConcurrentInit /\ [][ConcurrentNext]_vars

\* ------------------------------------------------ vocabulary of the claims
Original(t) == objects[<<"orig", t>>]
SelfReports(t) == "_features_count" \in dir(Original(t))
InCall(t) == pc[t] # "idle"
Ended(t) == pc[t] \in {"returned", "raised"}
ParseStarted(t) == parse_args[t] # << >>
LowerStarted(t) == lower_args[t] # << >>
InSklearn(t) ==
    pc[t] \in {"convert_sklearn:34", "convert_sklearn:38", "convert_sklearn:39", "convert_sklearn:42"}
TwoDimensional(ti) == ti.type = "ndarray" /\ Len(ti.shape) = 2
HasFeatures(d, n) == "n_features" \in DOMAIN d /\ d["n_features"] = n

\* C1: in convert_xgboost, when the model has no feature count of its own and
\* test_input is a 2-D ndarray of shape (k, n), the extra_config passed on to
\* convert_sklearn, and the one convert_topology reads, has n_features = n.
C1_InferredWidthHandedOn ==
    \A t \in Threads :
        (entry[t] = "convert_xgboost" /\ ~SelfReports(t) /\ TwoDimensional(test_input[t]))
        => /\ InSklearn(t) => HasFeatures(configs[extra_config[t]], test_input[t].shape[2])
           /\ LowerStarted(t) => HasFeatures(lower_config[t], test_input[t].shape[2])

\* A call on a 1 x 2 array whose caller had put n_features = 1 has reached
\* convert_topology.
C1_Witness ==
    \E t \in Threads :
        /\ entry[t] = "convert_xgboost" /\ ~SelfReports(t)
        /\ test_input[t] = [type |-> "ndarray", shape |-> <<1, 2>>]
        /\ HasFeatures(given_config[t], 1)
        /\ LowerStarted(t) /\ outcome[t] = "program"

\* C2: in convert_xgboost (XGBoost installed), when the model has no feature
\* count of its own and test_input is None or an ndarray that is not 2-D, the
\* call ends with the RuntimeError of feature-count inference, returns no
\* program, and neither parse_sklearn_api_model nor convert_topology is called.
C2_NoInferenceNoPipeline ==
    \A t \in Threads :
        (/\ entry[t] = "convert_xgboost" /\ installed["xgboost"] /\ ~SelfReports(t)
         /\ \/ test_input[t].type = "NoneType"
            \/ test_input[t].type = "ndarray" /\ Len(test_input[t].shape) # 2)
        => /\ ~InSklearn(t)
           /\ ~ParseStarted(t) /\ ~LowerStarted(t)
           /\ outcome[t] \in {"none", "RuntimeError"}
           /\ Ended(t) => (pc[t] = "raised" /\ outcome[t] = "RuntimeError")

\* Such a call on a 3-D array has ended.
C2_Witness ==
    \E t \in Threads :
        /\ entry[t] = "convert_xgboost" /\ ~SelfReports(t)
        /\ test_input[t].type = "ndarray" /\ Len(test_input[t].shape) = 3
        /\ pc[t] = "raised" /\ outcome[t] = "RuntimeError"

\* C3 as stated: for a model that reports its feature count, convert_lightgbm
\* and convert_xgboost hand convert_topology an extra_config whose n_features
\* is that count, whatever test_input is, and raise no feature-count error.
C3_AsStated ==
    \A t \in Threads :
        (entry[t] \in {"convert_lightgbm", "convert_xgboost"} /\ InCall(t)
         /\ Original(t).features_count > 0)
        => /\ outcome[t] # "RuntimeError"
           /\ LowerStarted(t) => HasFeatures(lower_config[t], Original(t).features_count)

\* C3 amended: for a model that has _features_count, convert_xgboost hands
\* convert_topology an extra_config whose n_features is that count, whatever
\* test_input is, and raises no feature-count error; convert_lightgbm raises
\* no feature-count error either, but writes nothing: convert_topology reads
\* the extra_config as it was when the call was made.
C3_SelfReportedCount ==
    \A t \in Threads :
        (InCall(t) /\ SelfReports(t))
        => /\ entry[t] = "convert_xgboost" =>
                /\ outcome[t] # "RuntimeError"
                /\ InSklearn(t) => HasFeatures(configs[extra_config[t]], Original(t).features_count)
                /\ LowerStarted(t) => HasFeatures(lower_config[t], Original(t).features_count)
           /\ entry[t] = "convert_lightgbm" =>
                /\ outcome[t] # "RuntimeError"
                /\ configs[extra_config[t]] = given_config[t]
                /\ LowerStarted(t) => lower_config[t] = given_config[t]

\* A convert_xgboost call on a model reporting 2 features, given a DataFrame
\* of width 1, has returned a program.
C3_Witness ==
    \E t \in Threads :
        /\ entry[t] = "convert_xgboost" /\ Original(t).features_count = 2
        /\ test_input[t] = [type |-> "DataFrame", shape |-> <<1, 1>>]
        /\ LowerStarted(t) /\ outcome[t] = "program"

\* C4: during and after a call, whether it returns or fails, the caller's
\* model and the sub-estimator it refers to stay as they were: no step of a
\* call changes them, and the model the parser is given is the copy.
C4_OriginalUntouched ==
    [][\A t \in Threads :
          (InCall(t) /\ pc'[t] # "idle")
          => /\ objects'[<<"orig", t>>] = objects[<<"orig", t>>]
             /\ objects'[<<"orig_est", t>>] = objects[<<"orig_est", t>>]
             /\ \A i \in DOMAIN parse_args'[t] : parse_args'[t][i].model = <<"copy", t>>]_vars

\* The parser has rewritten the copy and its sub-estimator, and the call has
\* ended (here: failed in lowering).
C4_Witness ==
    \E t \in Threads :
        /\ pc[t] = "raised" /\ outcome[t] = "LoweringError"
        /\ objects[<<"copy", t>>].rewritten /\ objects[<<"copy_est", t>>].rewritten
        /\ ~Original(t).rewritten

\* What convert_xgboost derives from the call's own model and test_input.
OwnFeatures(t) ==
    IF SelfReports(t) THEN Original(t).features_count ELSE test_input[t].shape[2]

\* C5: with calls running concurrently, the extra_config a call hands to
\* convert_topology is its own: in convert_xgboost n_features is the value
\* derived from the call's own model and test_input, in the other entry
\* points the contents are the ones the call was made with.
C5_NoSharedConfig ==
    \A t \in Threads :
        LowerStarted(t)
        => IF entry[t] = "convert_xgboost"
           THEN HasFeatures(lower_config[t], OwnFeatures(t))
           ELSE lower_config[t] = given_config[t]

\* C6 as stated: without torch every call, whatever its arguments, ends with
\* the AssertionError of the availability check and never starts parsing.
C6_AsStated ==
    \A t \in Threads :
        (InCall(t) /\ ~installed["torch"])
        => /\ ~ParseStarted(t)
           /\ Ended(t) => outcome[t] = "AssertionError"

\* Feature-count inference of convert_xgboost fails on this call.
InferenceFails(t) ==
    /\ entry[t] = "convert_xgboost"
    /\ ~SelfReports(t)
    /\ ~TwoDimensional(test_input[t])

\* C6 amended: without torch every call, whatever its arguments, fails and
\* starts neither parsing nor lowering; it ends with the AssertionError of an
\* availability check, except a convert_xgboost call (XGBoost installed)
\* whose feature-count inference fails, which ends with that RuntimeError.
C6_NoTorchNoParsing ==
    \A t \in Threads :
        (InCall(t) /\ ~installed["torch"])
        => /\ ~ParseStarted(t) /\ ~LowerStarted(t)
           /\ pc[t] # "returned" /\ outcome[t] # "program"
           /\ pc[t] \notin {"convert_sklearn:38", "convert_sklearn:39", "convert_sklearn:42"}
           /\ Ended(t) => outcome[t] = IF installed["xgboost"] /\ InferenceFails(t)
                                       THEN "RuntimeError" ELSE "AssertionError"

\* Without torch, a convert_xgboost call that got through feature inference
\* has been stopped by convert_sklearn's check.
C6_Witness ==
    \E t \in Threads :
        /\ ~installed["torch"] /\ installed["xgboost"]
        /\ entry[t] = "convert_xgboost" /\ ~InferenceFails(t)
        /\ pc[t] = "raised" /\ outcome[t] = "AssertionError"

\* C7 as stated: parse_sklearn_api_model and convert_topology both receive
\* the extra_config, and every option the caller supplied reaches them with
\* the caller's value.
C7_AsStated ==
    \A t \in Threads :
        /\ \A i \in DOMAIN parse_args[t] : "extra_config" \in DOMAIN parse_args[t][i]
        /\ \A i \in DOMAIN lower_args[t] : "extra_config" \in DOMAIN lower_args[t][i]
        /\ LowerStarted(t) =>
              \A k \in DOMAIN given_config[t] :
                  k \in DOMAIN lower_config[t] /\ lower_config[t][k] = given_config[t][k]

\* C7 amended: only convert_topology receives the extra_config (the parser
\* receives the model alone); it is the dictionary the call was made with, and
\* every option in it reaches convert_topology with the value it had, except
\* n_features in convert_xgboost, which is set to the inferred count; no other
\* option is added.
C7_ConfigReachesCompiler ==
    \A t \in Threads :
        /\ \A i \in DOMAIN parse_args[t] : DOMAIN parse_args[t][i] = {"model"}
        /\ \A i \in DOMAIN lower_args[t] :
              /\ "extra_config" \in DOMAIN lower_args[t][i]
              /\ lower_args[t][i].extra_config = extra_config[t]
        /\ LowerStarted(t) =>
              /\ DOMAIN lower_config[t] =
                    DOMAIN given_config[t]
                      \cup (IF entry[t] = "convert_xgboost" THEN {"n_features"} ELSE {})
              /\ \A k \in DOMAIN given_config[t] :
                    \/ k = "n_features" /\ entry[t] = "convert_xgboost"
                    \/ lower_config[t][k] = given_config[t][k]

\* A convert_lightgbm call made with both options set has reached
\* convert_topology.
C7_Witness ==
    \E t \in Threads :
        /\ entry[t] = "convert_lightgbm" /\ extra_config[t] = CallerDict(t)
        /\ DOMAIN given_config[t] = Keys /\ given_config[t]["n_features"] = 2
        /\ LowerStarted(t)

\* C8: convert_topology is called only after parse_sklearn_api_model gave a
\* topology; when parsing fails the call ends with the parser's exception,
\* convert_topology is never called and no program exists.
C8_ParseBeforeLower ==
    \A t \in Threads :
        /\ LowerStarted(t) =>
              /\ ParseStarted(t) /\ topology[t] # NoTopology
              /\ \A i \in DOMAIN lower_args[t] : lower_args[t][i].topology = topology[t]
        /\ (ParseStarted(t) /\ topology[t] = NoTopology) =>
              /\ ~LowerStarted(t) /\ hb_model[t] = "unset"
              /\ pc[t] = "raised" /\ outcome[t] = "UnsupportedModelError"

\* Parsing has failed on a call.
C8_Witness ==
    \E t \in Threads :
        /\ ParseStarted(t) /\ topology[t] = NoTopology
        /\ outcome[t] = "UnsupportedModelError"

\* C9: within a call parse_sklearn_api_model and convert_topology are each
\* called at most once; a failure of either is the outcome of the call; a
\* program is returned only when both succeeded.
C9_AllOrNothing ==
    \A t \in Threads :
        /\ Len(parse_args[t]) <= 1 /\ Len(lower_args[t]) <= 1
        /\ (ParseStarted(t) /\ topology[t] = NoTopology) => outcome[t] = "UnsupportedModelError"
        /\ (LowerStarted(t) /\ hb_model[t] = "unset") => outcome[t] = "LoweringError"
        /\ (pc[t] = "returned" \/ outcome[t] = "program") =>
              /\ pc[t] = "returned" /\ outcome[t] = "program"
              /\ Len(parse_args[t]) = 1 /\ topology[t] # NoTopology
              /\ Len(lower_args[t]) = 1 /\ hb_model[t] = "program"

\* Lowering has failed on a call that parsed.
C9_Witness ==
    \E t \in Threads :
        /\ topology[t] # NoTopology /\ LowerStarted(t) /\ hb_model[t] = "unset"
        /\ pc[t] = "raised" /\ outcome[t] = "LoweringError"

\* C10: with calls one after another, the n_features a convert_xgboost call
\* hands to convert_topology is the one of its own model and test_input, also
\* when the default extra_config still holds an earlier call's value; and a
\* convert_xgboost call that failed feature-count inference has left its
\* extra_config as it found it.
C10_NoCarryOver ==
    \A t \in Threads :
        entry[t] = "convert_xgboost"
        => /\ LowerStarted(t) =>
                HasFeatures(lower_config[t],
                            IF Original(t).features_count > 0
                            THEN Original(t).features_count
                            ELSE test_input[t].shape[2])
           /\ outcome[t] = "RuntimeError" => configs[extra_config[t]] = given_config[t]

\* A call left at the default extra_config, in which an earlier call had left
\* n_features = 1, has handed n_features = 2 to convert_topology.
C10_Witness ==
    \E t \in Threads :
        /\ entry[t] = "convert_xgboost" /\ extra_config[t] = DefaultOf("convert_xgboost")
        /\ HasFeatures(given_config[t], 1)
        /\ LowerStarted(t) /\ HasFeatures(lower_config[t], 2)

====
